---- MODULE Spec2Model ----
(***************************************************************************)
(* The multiplayer relay of REPUBLIC: the room registry, the connection    *)
(* handlers and the stale-room pass of relay_server.py, as a state machine.*)
(*                                                                         *)
(* The server is one asyncio thread.  A handler runs without interruption  *)
(* from one awaited websocket.send to the next; at each such send the      *)
(* frame is written first and the handler may then be suspended, so every  *)
(* action below is one such uninterrupted stretch of a handler.            *)
(***************************************************************************)
EXTENDS Integers, Sequences, FiniteSets, TLC

VARIABLES
    rooms,              \* relay_server.rooms: room code -> Room object
    player_rooms,       \* relay_server.player_rooms: player id -> room code
    connected_clients,  \* relay_server.connected_clients: set of sockets
    objs,               \* the Room objects alive in memory, by object id
    h,                  \* per socket: its connection_handler task (position and locals)
    open,               \* the sockets whose transport still accepts writes
    outbox,             \* per socket: the frames written to it, in order;
                        \* at Stdout: the lines the server prints
    now,                \* time.time()
    nframes,            \* frames read by the server so far
    observe,            \* what outbox keeps (fixed by Init): "none", the writes
                        \* of the last step ("step"), or all of them ("all")
    nm                  \* a client: its network.NetworkManager, the API call in
                        \* progress, and its transport

vars == <<rooms, player_rooms, connected_clients, objs, h, open, outbox, now,
          nframes, observe, nm>>

(***************************************************************************)
(* Bounds of the model.                                                    *)
(***************************************************************************)
NumSockets == 3
NumPlayers == 3
MaxFrames == 3
MaxTicks == 2

(***************************************************************************)
(* Constants of the program.                                               *)
(***************************************************************************)
RoomCapacity == 4
RoomCodeLen == 4
StaleAfter == 3600

Sockets == 1 .. NumSockets
PidNames == <<"p1", "p2", "p3", "p4", "p5", "p6", "p7", "p8">>
Pids == {PidNames[i] : i \in 1 .. NumPlayers}
RoomIds == 1 .. (NumSockets + 2)

NoId == ""
NoCode == <<>>
NoMsg == [type |-> "none"]
Stdout == 0
NoWrites == [s \in Sockets \cup {Stdout} |-> <<>>]
EmptyMap == [x \in {} |-> x]

Put(f, k, v) == [x \in DOMAIN f \cup {k} |-> IF x = k THEN v ELSE f[x]]
Del(f, k) == [x \in DOMAIN f \ {k} |-> f[x]]

(***************************************************************************)
(* Room codes are strings, modelled as sequences of characters, so that    *)
(* str.upper() and len() are computed and not assumed.                     *)
(***************************************************************************)
\* The upper case of one character is a string: that of U+00DF, written
\* "sz" here, is "SS".
UpperChar(c) ==
    CASE c = "a" -> <<"A">>
      [] c = "b" -> <<"B">>
      [] c = "w" -> <<"W">>
      [] c = "sz" -> <<"S", "S">>
      [] OTHER -> <<c>>

RECURSIVE upper(_)
upper(str) ==
    IF str = <<>> THEN <<>> ELSE UpperChar(Head(str)) \o upper(Tail(str))

(***************************************************************************)
(* A Python dict keeps its entries in insertion order; del leaves a hole   *)
(* in the entry table, and a new key is appended at the end.  Room.players *)
(* is iterated across awaits, so the table is modelled with its holes.     *)
(***************************************************************************)
Tomb == [id |-> NoId, ws |-> 0]

Keys(d) == {d[i].id : i \in DOMAIN d} \ {NoId}

DictLen(d) == Cardinality(Keys(d))

IndexOf(d, k) == CHOOSE i \in DOMAIN d : d[i].id = k

DictGet(d, k) == d[IndexOf(d, k)].ws

DictSet(d, k, v) ==
    IF k \in Keys(d)
    THEN [d EXCEPT ![IndexOf(d, k)].ws = v]
    ELSE Append(d, [id |-> k, ws |-> v])

DictDel(d, k) == [d EXCEPT ![IndexOf(d, k)] = Tomb]

\* next(iter(d.keys()))
FirstKey(d) ==
    LET i == CHOOSE j \in DOMAIN d :
                 d[j].id # NoId /\ \A m \in 1 .. (j - 1) : d[m].id = NoId
    IN d[i].id

\* iter(d.items()): the position in the entry table, the size the dict had
\* when the iterator was made, and the number of items still expected.
IterNew(d) == [pos |-> 0, used |-> DictLen(d), len |-> DictLen(d)]

NextAlive(d, pos) ==
    LET later == {i \in DOMAIN d : i > pos /\ d[i].id # NoId}
    IN IF later = {} THEN 0
       ELSE CHOOSE i \in later : \A j \in later : i <= j

\* next(it): RuntimeError when the dict changed size since the iterator was
\* made, or when an item turns up after all expected ones were yielded.
IterNext(d, it) ==
    IF DictLen(d) # it.used
    THEN [res |-> "error", idx |-> 0, it |-> it]
    ELSE LET i == NextAlive(d, it.pos)
         IN IF i = 0 THEN [res |-> "stop", idx |-> 0, it |-> it]
            ELSE IF it.len = 0 THEN [res |-> "error", idx |-> 0, it |-> it]
            ELSE [res |-> "item", idx |-> i,
                  it |-> [it EXCEPT !.pos = i, !.len = @ - 1]]

(***************************************************************************)
(* class Room                                                              *)
(***************************************************************************)
Room(code, host_id, t) ==
    [code |-> code, host_id |-> host_id, players |-> <<>>,
     player_info |-> EmptyMap, game_started |-> FALSE, last_activity |-> t]

\* add_player without `self.player_info[player_id] = info`.
add_player_no_info(room, player_id, websocket, info, t) ==
    [room EXCEPT !.players = DictSet(@, player_id, websocket),
                 !.last_activity = t]

add_player(room, player_id, websocket, info, t) ==
    [room EXCEPT !.players = DictSet(@, player_id, websocket),
                 !.player_info = Put(@, player_id, info),
                 !.last_activity = t]

\* remove_player without its second `del`.
remove_player_keeps_info(room, player_id, t) ==
    [room EXCEPT !.players = IF player_id \in Keys(@)
                             THEN DictDel(@, player_id) ELSE @,
                 !.last_activity = t]

remove_player(room, player_id, t) ==
    [room EXCEPT !.players = IF player_id \in Keys(@)
                             THEN DictDel(@, player_id) ELSE @,
                 !.player_info = IF player_id \in DOMAIN @
                                 THEN Del(@, player_id) ELSE @,
                 !.last_activity = t]

is_empty(room) == DictLen(room.players) = 0

\* is_full with `>` for `>=`.
is_full_above(room) == DictLen(room.players) > RoomCapacity

is_full(room) == DictLen(room.players) >= RoomCapacity

PlayerInfo(player_id, color_key, is_host) ==
    [player_id |-> player_id, color_key |-> color_key, is_host |-> is_host]

(***************************************************************************)
(* Frames written by the server.                                           *)
(***************************************************************************)
\* A rejection answered with the general `error` kind.
RoomError_as_error(message) == [type |-> "error", message |-> message]

RoomError(message) == [type |-> "room_error", message |-> message]
ErrorMsg(message) == [type |-> "error", message |-> message]
RoomCreated(code) == [type |-> "room_created", room_code |-> code]
RoomJoined(code, players, color) ==
    [type |-> "room_joined", room_code |-> code, players |-> players,
     assigned_color |-> color]
PlayerJoined(info) == [type |-> "player_joined", player |-> info]
PlayerLeft(player_id) == [type |-> "player_left", player_id |-> player_id]
HostChanged(player_id) == [type |-> "host_changed", new_host_id |-> player_id]

(***************************************************************************)
(* The server state a handler works on, as one record, so that a handler   *)
(* is the composition of its statements.                                   *)
(***************************************************************************)
Kept == IF observe = "all" THEN outbox ELSE NoWrites

World ==
    [rooms |-> rooms, player_rooms |-> player_rooms, objs |-> objs,
     outbox |-> Kept, h |-> h]

\* await websocket.send(...) inside try/except: the frame is written unless
\* the transport is closed, in which case the exception is logged.
\* A transport that puts a frame in front of those already written.
Send_in_front(w, websocket, msg) ==
    IF websocket \in open /\ observe # "none"
    THEN [w EXCEPT !.outbox[websocket] = <<msg>> \o @]
    ELSE w

Send(w, websocket, msg) ==
    IF websocket \in open /\ observe # "none"
    THEN [w EXCEPT !.outbox[websocket] = Append(@, msg)]
    ELSE w

\* print(...)
Log(w, line) ==
    IF observe # "none"
    THEN [w EXCEPT !.outbox[Stdout] = Append(@, line)]
    ELSE w

\* The locals of a connection_handler task that is reading frames.
Reading(player_id) ==
    [pc |-> "read", player_id |-> player_id, via |-> "msg", room |-> 0,
     sender |-> NoId, msg |-> NoMsg, exclude |-> NoId, k |-> "return",
     it |-> IterNew(<<>>), audience |-> {}, served |-> {}]

\* The loop over room.players starts: the iterator is made.  audience and
\* served are history fields: the players the loop is to reach, and the
\* sockets it has written its frame to.
StartLoop(hr, d) ==
    [hr EXCEPT !.it = IterNew(d), !.audience = Keys(d) \ {hr.exclude},
               !.served = {}]

Idle == [Reading(NoId) EXCEPT !.pc = "idle"]

\* The handler called from handle_message returns and the task reads the
\* next frame; the one called from the finally block ends the task.
Return(w, s, hr) ==
    [w EXCEPT !.h[s] = [Reading(hr.player_id) EXCEPT
                            !.pc = IF hr.via = "msg" THEN "read" ELSE "done"]]

\* An exception leaves the handler: handle_message catches it and replies
\* `error`; out of the finally block it ends the task.
Raise(w, s, hr, text) ==
    IF hr.via = "msg"
    THEN Return(Send(w, s, ErrorMsg(text)), s, hr)
    ELSE Return(w, s, hr)

(***************************************************************************)
(* broadcast_to_room, and the forwarding loop of handle_game_message:      *)
(* `for player_id, websocket in room.players.items()` with an awaited send *)
(* in its body.                                                            *)
(***************************************************************************)
\* The loop up to its next send: entries of the excluded player are passed
\* without an await.
RECURSIVE BcastRun(_, _, _)
BcastRun(d, it, exclude_id) ==
    LET n == IterNext(d, it)
    IN IF n.res = "item" /\ d[n.idx].id = exclude_id
       THEN BcastRun(d, n.it, exclude_id)
       ELSE n

\* The loop with a send whose exception is not caught.
Loop_send_raises(w, s, hr) ==
    LET d == w.objs[hr.room].players
        n == BcastRun(d, hr.it, hr.exclude)
    IN IF n.res = "item" /\ d[n.idx].ws \in open
       THEN [res |-> "suspended",
             w |-> [Send(w, d[n.idx].ws, hr.msg) EXCEPT
                        !.h[s] = [hr EXCEPT
                                     !.pc = "loop", !.it = n.it,
                                     !.served = @ \cup {d[n.idx].ws}]]]
       ELSE IF n.res = "item"
       THEN [res |-> "error", w |-> w]
       ELSE [res |-> n.res, w |-> w]

\* One stretch of the loop of handler task s: it ends suspended in the send
\* to the next recipient, or with the loop over, or with next() raising.
Loop(w, s, hr) ==
    LET d == w.objs[hr.room].players
        n == BcastRun(d, hr.it, hr.exclude)
    IN IF n.res = "item"
       THEN [res |-> "suspended",
             w |-> [Send(w, d[n.idx].ws, hr.msg) EXCEPT
                        !.h[s] = [hr EXCEPT
                                     !.pc = "loop", !.it = n.it,
                                     !.served = @ \cup ({d[n.idx].ws} \cap open)]]]
       ELSE [res |-> n.res, w |-> w]

DictChanged == "dictionary changed size during iteration"

\* handle_leave_room after its player_left broadcast: delete the empty room,
\* or transfer the host and broadcast host_changed.
LeaveCleanup(w, s, hr) ==
    LET room == w.objs[hr.room]
    IN IF is_empty(room)
       THEN IF room.code \in DOMAIN w.rooms
            THEN Return([w EXCEPT !.rooms = Del(@, room.code)], s, hr)
            ELSE Raise(w, s, hr, "KeyError")
       ELSE IF hr.sender = room.host_id
       THEN LET new_host_id == FirstKey(room.players)
                w1 == [w EXCEPT
                          !.objs[hr.room].host_id = new_host_id,
                          !.objs[hr.room].player_info =
                              IF new_host_id \in DOMAIN @
                              THEN [@ EXCEPT ![new_host_id].is_host = TRUE]
                              ELSE @]
                hr1 == StartLoop([hr EXCEPT !.msg = HostChanged(new_host_id),
                                            !.exclude = NoId, !.k = "return"],
                                 room.players)
                r == Loop(w1, s, hr1)
            IN CASE r.res = "suspended" -> r.w
                 [] r.res = "error" -> Raise(w1, s, hr1, DictChanged)
                 [] OTHER -> Return(w1, s, hr1)
       ELSE Return(w, s, hr)

\* A handler in a broadcast goes on from its await.
Continue(w, s, hr) ==
    LET r == Loop(w, s, hr)
    IN CASE r.res = "suspended" -> r.w
         [] r.res = "error" -> Raise(w, s, hr, DictChanged)
         [] OTHER -> IF hr.k = "leave_cleanup"
                     THEN LeaveCleanup(w, s, hr)
                     ELSE Return(w, s, hr)

(***************************************************************************)
(* The handlers of the frame kinds.  hr is the task's record, f the frame. *)
(***************************************************************************)
handle_leave_room(w, s, hr, sender_id) ==
    IF sender_id \notin DOMAIN w.player_rooms
    THEN Return(w, s, hr)
    ELSE LET room_code == w.player_rooms[sender_id]
             w1 == [w EXCEPT !.player_rooms = Del(@, sender_id)]
         IN IF room_code \notin DOMAIN w1.rooms
            THEN Return(w1, s, hr)
            ELSE LET rid == w1.rooms[room_code]
                     w2 == [w1 EXCEPT
                               !.objs[rid] = remove_player(@, sender_id, now)]
                     hr2 == StartLoop([hr EXCEPT
                                          !.room = rid, !.sender = sender_id,
                                          !.msg = PlayerLeft(sender_id),
                                          !.exclude = NoId,
                                          !.k = "leave_cleanup"],
                                      w2.objs[rid].players)
                 IN Continue(w2, s, hr2)

FreeRoomId(w) == CHOOSE i \in RoomIds \ DOMAIN w.objs :
                     \A j \in RoomIds \ DOMAIN w.objs : i <= j

\* handle_create_room without the `if room_code in rooms` branch.
handle_create_room_replacing(w, s, hr, f) ==
    LET room_code == upper(f.room_code)
        color_key == IF f.color_key = NoId THEN "red" ELSE f.color_key
    IN IF room_code = NoCode \/ Len(room_code) # RoomCodeLen
       THEN Return(Send(w, s, RoomError("Invalid room code")), s, hr)
       ELSE LET rid == FreeRoomId(w)
                room == add_player(Room(room_code, f.sender_id, now),
                                   f.sender_id, s,
                                   PlayerInfo(f.sender_id, color_key, TRUE), now)
                w1 == [w EXCEPT !.objs = Put(@, rid, room),
                                !.rooms = Put(@, room_code, rid),
                                !.player_rooms = Put(@, f.sender_id, room_code)]
            IN Return(Send(w1, s, RoomCreated(room_code)), s, hr)

handle_create_room(w, s, hr, f) ==
    LET room_code == upper(f.room_code)
        color_key == IF f.color_key = NoId THEN "red" ELSE f.color_key
    IN IF room_code = NoCode \/ Len(room_code) # RoomCodeLen
       THEN Return(Send(w, s, RoomError("Invalid room code")), s, hr)
       ELSE IF room_code \in DOMAIN w.rooms
       THEN Return(Send(w, s, RoomError("Room already exists. Try a different code.")),
                   s, hr)
       ELSE LET rid == FreeRoomId(w)
                room == add_player(Room(room_code, f.sender_id, now),
                                   f.sender_id, s,
                                   PlayerInfo(f.sender_id, color_key, TRUE), now)
                w1 == [w EXCEPT !.objs = Put(@, rid, room),
                                !.rooms = Put(@, room_code, rid),
                                !.player_rooms = Put(@, f.sender_id, room_code)]
            IN Return(Send(w1, s, RoomCreated(room_code)), s, hr)

Palette == <<"red", "blue", "green", "purple">>

\* used_colors that misses the colours of the members.
used_colors_none(room) == {}

\* used_colors of handle_join_room.
used_colors(room) ==
    {room.player_info[p].color_key : p \in DOMAIN room.player_info}

\* handle_join_room without its duplicate-colour check.
AssignColor_as_requested(color_key, used) == color_key

\* The duplicate-colour check of handle_join_room.
AssignColor(color_key, used) ==
    LET free == {i \in DOMAIN Palette : Palette[i] \notin used}
    IN IF color_key \in used /\ free # {}
       THEN Palette[CHOOSE i \in free : \A j \in free : i <= j]
       ELSE color_key

handle_join_room(w, s, hr, f) ==
    LET room_code == upper(f.room_code)
    IN IF room_code = NoCode \/ room_code \notin DOMAIN w.rooms
       THEN Return(Send(w, s, RoomError("Room not found. Check the code and try again.")),
                   s, hr)
       ELSE LET rid == w.rooms[room_code]
                room == w.objs[rid]
            IN IF is_full(room)
               THEN Return(Send(w, s, RoomError("Room is full (max 4 players).")),
                           s, hr)
               ELSE IF room.game_started
               THEN Return(Send(w, s, RoomError("Game already in progress.")),
                           s, hr)
               ELSE LET color_key ==
                            AssignColor(IF f.color_key = NoId THEN "blue"
                                        ELSE f.color_key, used_colors(room))
                        player_info == PlayerInfo(f.sender_id, color_key, FALSE)
                        room1 == add_player(room, f.sender_id, s, player_info, now)
                        existing_players ==
                            {room1.player_info[p] :
                                p \in DOMAIN room1.player_info \ {f.sender_id}}
                        w1 == [w EXCEPT
                                  !.objs[rid] = room1,
                                  !.player_rooms = Put(@, f.sender_id, room_code)]
                        w2 == Send(w1, s, RoomJoined(room_code, existing_players,
                                                     color_key))
                    IN \* suspended in the send of room_joined; the
                       \* player_joined broadcast starts when it resumes
                       [w2 EXCEPT !.h[s] =
                           [hr EXCEPT !.pc = "start", !.room = rid,
                                      !.sender = f.sender_id,
                                      !.msg = PlayerJoined(player_info),
                                      !.exclude = f.sender_id, !.k = "return"]]

GameKinds == {"game_state", "game_action", "turn_end", "game_start", "chat"}

\* handle_game_message without the flip of game_started.
handle_game_message_no_flag(w, s, hr, f) ==
    LET room_code == IF f.room_code # NoCode THEN f.room_code
                     ELSE IF f.sender_id \in DOMAIN w.player_rooms
                     THEN w.player_rooms[f.sender_id]
                     ELSE NoCode
    IN IF room_code = NoCode \/ room_code \notin DOMAIN w.rooms
       THEN Return(w, s, hr)
       ELSE LET rid == w.rooms[room_code]
                w1 == [w EXCEPT !.objs[rid].last_activity = now]
                hr1 == StartLoop([hr EXCEPT !.room = rid,
                                            !.sender = f.sender_id,
                                            !.msg = f, !.exclude = f.sender_id,
                                            !.k = "return"],
                                 w1.objs[rid].players)
            IN Continue(w1, s, hr1)

handle_game_message(w, s, hr, f) ==
    LET room_code == IF f.room_code # NoCode THEN f.room_code
                     ELSE IF f.sender_id \in DOMAIN w.player_rooms
                     THEN w.player_rooms[f.sender_id]
                     ELSE NoCode
    IN IF room_code = NoCode \/ room_code \notin DOMAIN w.rooms
       THEN Return(w, s, hr)
       ELSE LET rid == w.rooms[room_code]
                w1 == [w EXCEPT
                          !.objs[rid].last_activity = now,
                          !.objs[rid].game_started =
                              IF f.type = "game_start" THEN TRUE ELSE @]
                hr1 == StartLoop([hr EXCEPT !.room = rid,
                                            !.sender = f.sender_id,
                                            !.msg = f, !.exclude = f.sender_id,
                                            !.k = "return"],
                                 w1.objs[rid].players)
            IN Continue(w1, s, hr1)

\* handle_message without the test of sender_id.
handle_message_unchecked(w, s, hr, f) ==
    IF f.json = "invalid"
    THEN Return(Send(w, s, ErrorMsg("Invalid JSON")), s, hr)
    ELSE IF f.json # "object"
    THEN Raise(w, s, hr, "AttributeError")
    ELSE CASE f.type = "create_room" -> handle_create_room(w, s, hr, f)
           [] f.type = "join_room" -> handle_join_room(w, s, hr, f)
           [] f.type = "leave_room" -> handle_leave_room(w, s, hr, f.sender_id)
           [] f.type \in GameKinds -> handle_game_message(w, s, hr, f)
           [] f.type = "ping" -> Return(Send(w, s, [type |-> "pong"]), s, hr)
           [] OTHER -> Return(w, s, hr)

\* handle_message: json.loads raises JSONDecodeError on a frame that is not
\* JSON; message.get raises AttributeError on JSON that is not an object.
handle_message(w, s, hr, f) ==
    IF f.json = "invalid"
    THEN Return(Send(w, s, ErrorMsg("Invalid JSON")), s, hr)
    ELSE IF f.json # "object"
    THEN Raise(w, s, hr, "AttributeError")
    ELSE IF f.sender_id = NoId
    THEN Return(Send(w, s, ErrorMsg("Missing sender_id")), s, hr)
    ELSE CASE f.type = "create_room" -> handle_create_room(w, s, hr, f)
           [] f.type = "join_room" -> handle_join_room(w, s, hr, f)
           [] f.type = "leave_room" -> handle_leave_room(w, s, hr, f.sender_id)
           [] f.type \in GameKinds -> handle_game_message(w, s, hr, f)
           [] f.type = "ping" -> Return(Send(w, s, [type |-> "pong"]), s, hr)
           [] OTHER -> Return(w, s, hr)

(***************************************************************************)
(* The steps of the server.                                                *)
(***************************************************************************)
\* A Room object no registry entry and no handler refers to is freed.
Referenced(w) ==
    {w.rooms[c] : c \in DOMAIN w.rooms} \cup {w.h[s].room : s \in Sockets}

Commit(w) ==
    /\ rooms' = w.rooms
    /\ player_rooms' = w.player_rooms
    /\ objs' = [i \in DOMAIN w.objs \cap Referenced(w) |-> w.objs[i]]
    /\ outbox' = w.outbox
    /\ h' = w.h

\* connection_handler starts for a new socket.  Sockets are numbered in
\* the order in which they connect.
Connect(s) ==
    /\ h[s].pc = "idle"
    /\ \A t \in Sockets : t < s => h[t].pc # "idle"
    /\ connected_clients' = connected_clients \cup {s}
    /\ open' = open \cup {s}
    /\ h' = [h EXCEPT ![s] = Reading(NoId)]
    /\ outbox' = Kept
    /\ UNCHANGED <<rooms, player_rooms, objs, now, nframes, observe, nm>>

\* The peer closes the transport, or it fails.
PeerClose(s) ==
    /\ s \in open
    /\ open' = open \ {s}
    /\ outbox' = Kept
    /\ UNCHANGED <<rooms, player_rooms, connected_clients, objs, h, now,
                   nframes, observe, nm>>

\* `async for message in websocket`: the task reads frame f and runs
\* handle_message up to its first await.
Receive(s, f, max) ==
    /\ h[s].pc = "read"
    /\ s \in open
    /\ nframes < max
    /\ nframes' = nframes + 1
    /\ LET hr == [h[s] EXCEPT !.player_id = IF @ = NoId /\ f.json = "object"
                                             THEN f.sender_id ELSE @,
                              !.via = "msg"]
       IN Commit(handle_message(World, s, hr, f))
    /\ UNCHANGED <<connected_clients, open, now, observe, nm>>

\* A suspended handler is resumed.
Resume(s) ==
    /\ h[s].pc \in {"start", "loop"}
    /\ LET hr == IF h[s].pc = "start"
                 THEN StartLoop(h[s], objs[h[s].room].players)
                 ELSE h[s]
       IN Commit(Continue(World, s, hr))
    /\ UNCHANGED <<connected_clients, open, now, nframes, observe, nm>>

\* The socket is closed: the finally block of connection_handler.
Closed(s) ==
    /\ h[s].pc = "read"
    /\ s \notin open
    /\ connected_clients' = connected_clients \ {s}
    /\ LET hr == [h[s] EXCEPT !.via = "close"]
       IN IF hr.player_id # NoId
          THEN Commit(handle_leave_room(World, s, hr, hr.player_id))
          ELSE Commit(Return(World, s, hr))
    /\ UNCHANGED <<open, now, nframes, observe, nm>>

\* Time passes.
Tick ==
    /\ now < MaxTicks * StaleAfter
    /\ now' = now + StaleAfter
    /\ outbox' = Kept
    /\ UNCHANGED <<rooms, player_rooms, connected_clients, objs, h, open,
                   nframes, observe, nm>>

(***************************************************************************)
(* cleanup_stale_rooms: one pass of the loop.                              *)
(***************************************************************************)
\* The pass with twice the threshold.
StaleRooms_late(w) ==
    {c \in DOMAIN w.rooms :
        now - w.objs[w.rooms[c]].last_activity > 2 * StaleAfter}

StaleRooms(w) ==
    {c \in DOMAIN w.rooms : now - w.objs[w.rooms[c]].last_activity > StaleAfter}

\* The pop loop without `player_rooms.pop(player_id, None)`.
RECURSIVE PopStale_keeps_players(_, _)
PopStale_keeps_players(w, stale) ==
    IF stale = {} THEN w
    ELSE LET room_code == CHOOSE c \in stale : TRUE
             w1 == [w EXCEPT !.rooms = Del(@, room_code)]
         IN PopStale_keeps_players(
                Log(w1, [type |-> "cleanup", room_code |-> room_code]),
                stale \ {room_code})

RECURSIVE PopStale(_, _)
PopStale(w, stale) ==
    IF stale = {} THEN w
    ELSE LET room_code == CHOOSE c \in stale : TRUE
             room == w.objs[w.rooms[room_code]]
             w1 == [w EXCEPT
                       !.rooms = Del(@, room_code),
                       !.player_rooms =
                           [p \in DOMAIN @ \ Keys(room.players) |-> @[p]]]
         IN PopStale(Log(w1, [type |-> "cleanup", room_code |-> room_code]),
                     stale \ {room_code})

cleanup_stale_rooms ==
    /\ Commit(PopStale(World, StaleRooms(World)))
    /\ UNCHANGED <<connected_clients, open, now, nframes, observe, nm>>

(***************************************************************************)
(* The frames clients send.                                                *)
(***************************************************************************)
\* A frame that is a JSON object with the given fields.
Frame(type, sender_id, room_code, color_key, payload) ==
    [type |-> type, sender_id |-> sender_id, room_code |-> room_code,
     color_key |-> color_key, payload |-> payload, json |-> "object"]

\* A frame that is not JSON ("invalid"), or is JSON but not an object
\* ("other": a number, a string, a list).
Garbage(kind) == [Frame("none", NoId, NoCode, NoId, 0) EXCEPT !.json = kind]

AAAA == <<"A", "A", "A", "A">>
BBBB == <<"B", "B", "B", "B">>
AB == <<"A", "B">>
aaaa == <<"a", "a", "a", "a">>

\* Any socket may send a frame under any sender_id.
Frames(s) ==
    {Frame(t, p, AAAA, "red", 0) :
        t \in {"create_room", "join_room"}, p \in Pids}
    \cup {Frame("leave_room", p, NoCode, NoId, 0) : p \in Pids}
    \cup {Frame("game_start", p, NoCode, NoId, 0) : p \in Pids}

(***************************************************************************)
(* network.py: one client.  nm holds the fields of its NetworkManager, the *)
(* API coroutine in progress (call), the state of its transport, the       *)
(* frames on their way from the server (wire), and what the last step      *)
(* wrote (sent), reported to on_error (errors) and returned (ret).         *)
(***************************************************************************)
reconnect_attempts == 3

\* Values _generate_player_id and _generate_room_code may return.
GenIds == {"p1", "p2"}
GenCodes == {AAAA}

\* class MessageType: the kinds NetworkMessage.from_json accepts.
MessageType ==
    {"create_room", "join_room", "leave_room", "room_created", "room_joined",
     "player_joined", "player_left", "room_error", "game_start", "game_state",
     "game_action", "turn_end", "game_over", "ping", "pong", "chat", "error"}

\* queue_types with the `error` kind added.
QueueTypes_with_error ==
    {"room_created", "room_joined", "room_error", "error"}

\* queue_types of _handle_message.
QueueTypes == {"room_created", "room_joined", "room_error"}

Connected == {"connected", "in_room", "game_active"}

\* A frame between client and server.  re is a history field: the number
\* of the request a confirmation answers (the frames carry no such number).
Msg(type, pid, code, re) ==
    [type |-> type, pid |-> pid, room_code |-> code, re |-> re]

\* No API coroutine in progress.  errs is a history field: how many times
\* the coroutine in progress has invoked on_error so far.
NoCall ==
    [op |-> "none", pc |-> "none", attempt |-> 0, arg |-> NoCode, req |-> 0,
     errs |-> 0]

\* NetworkManager.__init__
NetworkManager ==
    [state |-> "disconnected", player_id |-> NoId, websocket |-> "none",
     receive_task |-> "none", message_queue |-> <<>>, room_code |-> NoCode,
     is_host |-> FALSE, players |-> {},
     call |-> NoCall, transport |-> "none", wire |-> <<>>, pending |-> {},
     sent |-> <<>>, errors |-> 0, ret |-> "none",
     nreq |-> 0, ncalls |-> 0, nin |-> 0]

\* What a step starts from: nothing written, reported or returned yet.
Fresh(m) == [m EXCEPT !.sent = <<>>, !.errors = 0, !.ret = "none"]

\* _handle_error: the on_error callback is invoked.
handle_error(m) == [m EXCEPT !.errors = @ + 1, !.call.errs = @ + 1]

\* _send_message
send_message(m, frame) ==
    IF m.websocket = "none" THEN m
    ELSE IF m.transport = "open"
    THEN [m EXCEPT !.sent = Append(@, frame),
                   !.pending = IF frame.re # 0 THEN @ \cup {frame} ELSE @]
    ELSE handle_error(m)

\* The API coroutine returns v.
ReturnCall(m, v) == [m EXCEPT !.call = NoCall, !.ret = v]

Bool(b) == IF b THEN "True" ELSE "False"

\* What create_room, join_room and connect return on failure.
Failure(op) == IF op = "create_room" THEN "None" ELSE "False"

\* connect() up to its first await, entered from API `op` with argument arg.
connect(m, op, arg, id) ==
    IF m.state # "disconnected"
    THEN ReturnCall(m, Bool(m.state \in Connected))
    ELSE [m EXCEPT !.state = "connecting", !.player_id = id,
                   !.call = [op |-> op, pc |-> "attempt", attempt |-> 1,
                             arg |-> arg, req |-> 0, errs |-> 0]]

\* create_room / join_room from after the connect to the wait for the
\* confirmation.
request_room(m, op, code) ==
    LET r == m.nreq + 1
        m1 == [m EXCEPT !.is_host = (op = "create_room"),
                        !.room_code = IF op = "join_room" THEN upper(code)
                                      ELSE code,
                        !.nreq = r]
        m2 == send_message(m1, Msg(op, m1.player_id, m1.room_code, r))
    IN [m2 EXCEPT !.call = [op |-> op, pc |-> "wait", attempt |-> 0,
                            arg |-> code, req |-> r,
                            errs |-> m2.call.errs]]

\* connect() with a loop that tries until an attempt succeeds.
connect_attempt_until_success(m, ok) ==
    IF ok
    THEN LET m1 == [m EXCEPT !.websocket = "set", !.transport = "open",
                             !.wire = <<>>, !.pending = {},
                             !.state = "connected",
                             !.receive_task = "running"]
         IN IF m.call.op = "connect" THEN ReturnCall(m1, "True")
            ELSE request_room(m1, m.call.op, m.call.arg)
    ELSE [m EXCEPT !.call.attempt = @ + 1]

\* connect(): one pass of `for attempt in range(self.reconnect_attempts)`,
\* from the end of the awaited connection attempt to the next await or to
\* the return.
connect_attempt(m, ok) ==
    IF ok
    THEN LET m1 == [m EXCEPT !.websocket = "set", !.transport = "open",
                             !.wire = <<>>, !.pending = {},
                             !.state = "connected",
                             !.receive_task = "running"]
         IN IF m.call.op = "connect" THEN ReturnCall(m1, "True")
            ELSE request_room(m1, m.call.op, m.call.arg)
    ELSE IF m.call.attempt < reconnect_attempts
    THEN [m EXCEPT !.call.attempt = @ + 1]
    ELSE ReturnCall(handle_error([m EXCEPT !.state = "error"]),
                    Failure(m.call.op))

\* create_room / join_room up to the first await.
create_room(m, code, id) ==
    IF m.state = "disconnected"
    THEN connect(m, "create_room", code, id)
    ELSE request_room(m, "create_room", code)

join_room(m, code, id) ==
    IF m.state = "disconnected"
    THEN connect(m, "join_room", code, id)
    ELSE request_room(m, "join_room", code)

\* create_room / join_room from the response taken off message_queue.
confirm(m, op, response) ==
    IF response.type =
           (IF op = "create_room" THEN "room_created" ELSE "room_joined")
    THEN ReturnCall(
             [m EXCEPT !.state = "in_room",
                       !.players =
                           @ \cup {m.player_id}
                             \cup (IF op = "join_room" /\ response.pid # NoId
                                   THEN {response.pid} ELSE {})],
             IF op = "create_room" THEN "room_code" ELSE "True")
    ELSE IF response.type = "room_error"
    THEN ReturnCall(handle_error(m), Failure(op))
    ELSE ReturnCall(m, Failure(op))

leave_room(m) ==
    LET m1 == IF m.room_code # NoCode
              THEN send_message(m, Msg("leave_room", m.player_id,
                                       m.room_code, 0))
              ELSE m
    IN ReturnCall([m1 EXCEPT !.room_code = NoCode, !.players = {},
                             !.state = "connected"], "None")

start_game(m) ==
    IF ~m.is_host THEN ReturnCall(m, "None")
    ELSE ReturnCall(send_message([m EXCEPT !.state = "game_active"],
                                 Msg("game_start", m.player_id, m.room_code, 0)),
                    "None")

\* send_game_state, send_game_action, send_turn_end, send_chat
SendKinds == {"game_state", "game_action", "turn_end", "chat"}

send_game(m, kind) ==
    IF m.state \notin {"in_room", "game_active"} THEN ReturnCall(m, "None")
    ELSE ReturnCall(send_message(m, Msg(kind, m.player_id, m.room_code, 0)),
                    "None")

\* disconnect() without the reset of room_code.
disconnect_keeps_room(m) ==
    ReturnCall(
        [m EXCEPT !.receive_task = IF @ = "running" THEN "cancelled" ELSE @,
                  !.websocket = "none",
                  !.transport = IF m.websocket # "none" /\ @ = "open"
                                THEN "closed" ELSE @,
                  !.wire = <<>>, !.pending = {},
                  !.state = "disconnected", !.players = {}],
        "None")

disconnect(m) ==
    ReturnCall(
        [m EXCEPT !.receive_task = IF @ = "running" THEN "cancelled" ELSE @,
                  !.websocket = "none",
                  !.transport = IF m.websocket # "none" /\ @ = "open"
                                THEN "closed" ELSE @,
                  !.wire = <<>>, !.pending = {},
                  !.state = "disconnected", !.room_code = NoCode,
                  !.players = {}],
        "None")

\* _handle_message
client_handle_message(m, message) ==
    IF message.type \in QueueTypes
    THEN [m EXCEPT !.message_queue = Append(@, message)]
    ELSE CASE message.type = "player_joined" ->
                  [m EXCEPT !.players = @ \cup {message.pid}]
           [] message.type = "player_left" ->
                  [m EXCEPT !.players = @ \ {message.pid}]
           [] message.type = "game_start" -> [m EXCEPT !.state = "game_active"]
           [] message.type = "error" ->
                  [handle_error(m) EXCEPT !.call = m.call]
           [] OTHER -> m

\* The body of the loop of _receive_loop: from_json raises on a kind that
\* is not in MessageType, and the frame is dropped.
receive(m, message) ==
    IF message.type \notin MessageType THEN m
    ELSE client_handle_message(m, message)

(***************************************************************************)
(* The steps of the client and of its peer.                                *)
(***************************************************************************)
MaxCalls == 3
MaxInbound == 1

srv == <<rooms, player_rooms, connected_clients, objs, h, open, outbox, now,
         nframes, observe>>

Client(m) == nm' = m /\ UNCHANGED srv

\* The application calls the API when no call is in progress.
CanCall == nm.call.op = "none" /\ nm.ncalls < MaxCalls

Called == [Fresh(nm) EXCEPT !.ncalls = @ + 1]

Call_connect ==
    CanCall /\ \E id \in GenIds : Client(connect(Called, "connect", NoCode, id))

Call_create_room ==
    CanCall /\ \E id \in GenIds : \E code \in GenCodes :
        Client(create_room(Called, code, id))

Call_join_room ==
    CanCall /\ \E id \in GenIds : \E code \in {aaaa} :
        Client(join_room(Called, code, id))

Call_leave_room == CanCall /\ Client(leave_room(Called))

Call_start_game == CanCall /\ Client(start_game(Called))

Call_send == CanCall /\ \E kind \in SendKinds : Client(send_game(Called, kind))

Call_disconnect == CanCall /\ Client(disconnect(Called))

\* A connection attempt of connect() ends: the transport is there, or the
\* attempt failed or timed out.
AttemptEnds(ok) ==
    /\ nm.call.pc = "attempt"
    /\ Client(connect_attempt(Fresh(nm), ok))

\* message_queue.get() returns to the waiting create_room / join_room.
WaitTakes ==
    /\ nm.call.pc = "wait"
    /\ nm.message_queue # <<>>
    /\ Client(confirm([Fresh(nm) EXCEPT !.message_queue = Tail(@)],
                      nm.call.op, Head(nm.message_queue)))

\* asyncio.wait_for(..., timeout=5.0) times out.
WaitTimesOut ==
    /\ nm.call.pc = "wait"
    /\ nm.message_queue = <<>>
    /\ Client(ReturnCall(handle_error(Fresh(nm)), Failure(nm.call.op)))

\* The receive loop reads the next frame.
Deliver ==
    /\ nm.receive_task = "running"
    /\ nm.transport = "open"
    /\ nm.wire # <<>>
    /\ Client(receive([Fresh(nm) EXCEPT !.wire = Tail(@)], Head(nm.wire)))

\* The transport ends and the receive loop with it: the iteration stops
\* after a normal close ("ok"), raises ConnectionClosed ("closed"), or
\* raises another exception ("exception").
TransportEnds(how) ==
    /\ nm.transport = "open"
    /\ LET m == [Fresh(nm) EXCEPT !.transport = "closed", !.wire = <<>>,
                                  !.pending = {}]
       IN IF nm.receive_task # "running" THEN Client(m)
          ELSE Client([m EXCEPT !.receive_task = "done",
                                !.state = CASE how = "closed" -> "disconnected"
                                            [] how = "exception" -> "error"
                                            [] OTHER -> @])

\* The server answers a request it has read.
ServerAnswers ==
    /\ nm.transport = "open"
    /\ \E q \in nm.pending :
       \E kind \in {IF q.type = "create_room" THEN "room_created"
                    ELSE "room_joined", "room_error"} :
          Client([Fresh(nm) EXCEPT
                     !.pending = @ \ {q},
                     !.wire = Append(@, Msg(kind,
                                            IF kind = "room_joined" THEN "p3"
                                            ELSE NoId,
                                            q.room_code, q.re))])

\* The server forwards or broadcasts a frame to the client: a frame of
\* another player p3, or the host_changed that names the client itself as
\* the new host.
PushKinds == {"player_joined", "game_start", "error", "host_changed"}

ServerPushes ==
    /\ nm.transport = "open"
    /\ nm.nin < MaxInbound
    /\ \E kind \in PushKinds :
          Client([Fresh(nm) EXCEPT
                     !.nin = @ + 1,
                     !.wire = Append(@, Msg(kind,
                                            IF kind = "host_changed"
                                            THEN nm.player_id ELSE "p3",
                                            NoCode, 0))])

NextClient ==
    \/ Call_connect
    \/ Call_create_room
    \/ Call_join_room
    \/ Call_leave_room
    \/ Call_start_game
    \/ Call_send
    \/ Call_disconnect
    \/ \E ok \in BOOLEAN : AttemptEnds(ok)
    \/ WaitTakes
    \/ WaitTimesOut
    \/ Deliver
    \/ \E how \in {"ok", "closed", "exception"} : TransportEnds(how)
    \/ ServerAnswers
    \/ ServerPushes

InitWith(obs) ==
    /\ rooms = EmptyMap
    /\ player_rooms = EmptyMap
    /\ connected_clients = {}
    /\ objs = EmptyMap
    /\ h = [s \in Sockets |-> Idle]
    /\ open = {}
    /\ outbox = NoWrites
    /\ now = 0
    /\ nframes = 0
    /\ observe = obs
    /\ nm = NetworkManager

\* What the connections SS do besides sending frames.
Env(SS) ==
    \/ \E s \in SS : Connect(s)
    \/ \E s \in SS : PeerClose(s)
    \/ \E s \in SS : Resume(s)
    \/ \E s \in SS : Closed(s)

Init == InitWith("none")

Next ==
    \/ Env(Sockets)
    \/ \E s \in Sockets : \E f \in Frames(s) : Receive(s, f, MaxFrames)

Spec == Init /\ [][Next]_vars

(***************************************************************************)
(* Each client on a socket of its own, under its own player id; its game   *)
(* frames are numbered in the order in which it sends them.                *)
(***************************************************************************)
MaxFramesRelay == 4

OwnPid(s) == PidNames[s]

RelayFrames(s) ==
    {Frame(t, OwnPid(s), AAAA, "red", 0) : t \in {"create_room", "join_room"}}
    \cup {Frame("leave_room", OwnPid(s), NoCode, NoId, 0),
          Frame("chat", OwnPid(s), NoCode, NoId, nframes + 1)}

NextRelay ==
    \/ Env(Sockets)
    \/ \E s \in Sockets : \E f \in RelayFrames(s) :
           Receive(s, f, MaxFramesRelay)

SpecRelay == Init /\ [][NextRelay]_vars

\* Two such clients, with every frame written by the server on record.
InitOrder == InitWith("all")

NextOrder ==
    \/ Env({1, 2})
    \/ \E s \in {1, 2} : \E f \in RelayFrames(s) :
           Receive(s, f, MaxFramesRelay)

SpecOrder == InitOrder /\ [][NextOrder]_vars

(***************************************************************************)
(* A host on socket 1 and, on socket 2, clients that ask to join under     *)
(* several player ids, with codes in either case, too short, or unknown.   *)
(* outbox holds what the last step wrote.                                  *)
(***************************************************************************)
MaxFramesJoin == 5
NumJoiners == 4

JoinFrames(s) ==
    IF s = 1
    THEN {Frame("create_room", "p1", AAAA, "red", 0),
          Frame("create_room", "p1", AB, "red", 0),
          Frame("game_start", "p1", NoCode, NoId, 0)}
    ELSE {Frame("join_room", PidNames[i], c, "red", 0) :
              i \in 2 .. (NumJoiners + 1), c \in {aaaa, BBBB}}
         \cup {Frame("create_room", "p2", aaaa, "red", 0)}

InitJoin == InitWith("step")

NextJoin ==
    \/ Env({1, 2})
    \/ \E s \in {1, 2} : \E f \in JoinFrames(s) : Receive(s, f, MaxFramesJoin)

SpecJoin == InitJoin /\ [][NextJoin]_vars

(***************************************************************************)
(* Two connections, two room codes, and the stale-room pass as time goes   *)
(* by.  outbox holds what the last step wrote and printed.                 *)
(***************************************************************************)
MaxFramesStale == 3

StaleFrames(s) ==
    {Frame(t, p, c, "red", 0) :
        t \in {"create_room", "join_room"}, p \in {"p1", "p2"},
        c \in {AAAA, BBBB}}

InitStale == InitWith("step")

NextStale ==
    \/ Env({1, 2})
    \/ \E s \in {1, 2} : \E f \in StaleFrames(s) :
           Receive(s, f, MaxFramesStale)
    \/ Tick
    \/ cleanup_stale_rooms

SpecStale == InitStale /\ [][NextStale]_vars

(***************************************************************************)
(* Two clients that create and join under their own player id, with codes  *)
(* in either letter case and codes whose upper case has another length.    *)
(* outbox holds what the last step wrote.                                  *)
(***************************************************************************)
MaxFramesCodes == 3

szAA == <<"sz", "A", "A">>
szAAA == <<"sz", "A", "A", "A">>
CodeInputs == {AAAA, aaaa, szAA, szAAA}

CodeFrames(s) ==
    {Frame(t, OwnPid(s), c, "red", 0) :
        t \in {"create_room", "join_room"}, c \in CodeInputs}

InitCodes == InitWith("step")

NextCodes ==
    \/ Env({1, 2})
    \/ \E s \in {1, 2} : \E f \in CodeFrames(s) :
           Receive(s, f, MaxFramesCodes)

SpecCodes == InitCodes /\ [][NextCodes]_vars

(***************************************************************************)
(* Two connections and two room codes: players create, join and leave      *)
(* under either player id, sockets close, and the stale-room pass runs as  *)
(* time goes by.                                                           *)
(***************************************************************************)
MaxFramesRooms == 3

RoomsFrames(s) ==
    StaleFrames(s)
    \cup {Frame("leave_room", p, NoCode, NoId, 0) : p \in {"p1", "p2"}}

NextRooms ==
    \/ Env({1, 2})
    \/ \E s \in {1, 2} : \E f \in RoomsFrames(s) :
           Receive(s, f, MaxFramesRooms)
    \/ Tick
    \/ cleanup_stale_rooms

SpecRooms == Init /\ [][NextRooms]_vars

(***************************************************************************)
(* One client against a peer that answers, pushes and closes at will.      *)
(***************************************************************************)
(***************************************************************************)
(* Two clients under their own player ids that also send frames that are   *)
(* not JSON, not JSON objects, or carry no sender_id.  outbox holds what   *)
(* the last step wrote.                                                    *)
(***************************************************************************)
MaxFramesErrors == 4

BadFrames ==
    {Garbage("invalid"), Garbage("other")}
    \cup {Frame(t, NoId, AAAA, "red", 0) :
              t \in {"create_room", "join_room", "leave_room", "chat"}}

ErrorFrames(s) ==
    {Frame(t, OwnPid(s), AAAA, "red", 0) :
        t \in {"create_room", "join_room", "chat"}}
    \cup BadFrames

InitErrors == InitWith("step")

NextErrors ==
    \/ Env({1, 2})
    \/ \E s \in {1, 2} : \E f \in ErrorFrames(s) :
           Receive(s, f, MaxFramesErrors)

SpecErrors == InitErrors /\ [][NextErrors]_vars

(***************************************************************************)
(* Three clients under their own player ids in one room, whose transports  *)
(* may close while frames are forwarded.  outbox holds what the last step  *)
(* wrote.                                                                  *)
(***************************************************************************)
MaxFramesFail == 4

FailFrames(s) ==
    {Frame(t, OwnPid(s), AAAA, "red", 0) :
        t \in {"create_room", "join_room", "chat"}}

InitFail == InitWith("step")

NextFail ==
    \/ Env(Sockets)
    \/ \E s \in Sockets : \E f \in FailFrames(s) : Receive(s, f, MaxFramesFail)

SpecFail == InitFail /\ [][NextFail]_vars

(***************************************************************************)
(* A host and up to three joiners that ask for colours of the palette and  *)
(* for one that is not in it, join again and leave.  outbox holds what the *)
(* last step wrote.                                                        *)
(***************************************************************************)
MaxFramesColors == 4

ColorInputs == {"red", "blue", "pink"}

ColorFrames(s) ==
    IF s = 1
    THEN {Frame("create_room", "p1", AAAA, c, 0) : c \in ColorInputs}
    ELSE {Frame("join_room", PidNames[i], AAAA, c, 0) :
              i \in 1 .. 4, c \in ColorInputs}
         \cup {Frame("leave_room", PidNames[i], NoCode, NoId, 0) : i \in 1 .. 2}

InitColors == InitWith("step")

NextColors ==
    \/ Env({1, 2})
    \/ \E s \in {1, 2} : \E f \in ColorFrames(s) :
           Receive(s, f, MaxFramesColors)

SpecColors == InitColors /\ [][NextColors]_vars

(***************************************************************************)
(* Two clients under their own player ids whose game frames name the room  *)
(* they are for, or leave it to player_rooms.  outbox holds what the last  *)
(* step wrote.                                                             *)
(***************************************************************************)
MaxFramesGame == 4

GameFrames(s) ==
    {Frame(t, OwnPid(s), AAAA, "red", 0) : t \in {"create_room", "join_room"}}
    \cup {Frame(t, OwnPid(s), c, NoId, 0) :
              t \in {"game_start", "chat"}, c \in {AAAA, NoCode}}
    \cup {Frame("leave_room", OwnPid(s), NoCode, NoId, 0)}

InitGame == InitWith("step")

NextGame ==
    \/ Env({1, 2})
    \/ \E s \in {1, 2} : \E f \in GameFrames(s) : Receive(s, f, MaxFramesGame)

SpecGame == InitGame /\ [][NextGame]_vars

SpecClient == Init /\ [][NextClient]_vars

\* Every connection attempt ends: asyncio.wait_for(..., timeout=10.0), then
\* asyncio.sleep(self.reconnect_delay).
SpecClientFair ==
    SpecClient /\ WF_vars(\E ok \in BOOLEAN : AttemptEnds(ok))

(***************************************************************************)
(* Properties.                                                             *)
(***************************************************************************)
Range(q) == {q[i] : i \in DOMAIN q}

RoomOf(c) == objs[rooms[c]]

Hosts(room) == {p \in DOMAIN room.player_info : room.player_info[p].is_host}

\* No handler is inside a frame or inside its close processing.
Quiescent == \A s \in Sockets : h[s].pc \in {"idle", "read", "done"}

\* C1: in every state, also while handlers are suspended in a send, the
\* keys of players and of player_info are the same in every room of the
\* registry.
C1_SameKeys ==
    \A c \in DOMAIN rooms :
        Keys(RoomOf(c).players) = DOMAIN RoomOf(c).player_info

\* A player has been removed from a room that still has two members, and
\* the leave handler is suspended in its broadcast to them.
C1_Witness ==
    \E c \in DOMAIN rooms, s \in Sockets :
        /\ h[s].pc = "loop" /\ h[s].room = rooms[c]
        /\ h[s].msg.type = "player_left"
        /\ Tomb \in Range(RoomOf(c).players)
        /\ DictLen(RoomOf(c).players) = 2

\* C2: in every state, also while handlers are suspended in a send, the
\* host_id of every non-empty room of the registry is a key of its players.
C2_HostIsMember ==
    \A c \in DOMAIN rooms :
        ~is_empty(RoomOf(c)) => RoomOf(c).host_id \in Keys(RoomOf(c).players)

\* C3: once the frames and closes received so far are handled, every room of
\* the registry has exactly one PlayerInfo with is_host, that of host_id.
C3_OneHost ==
    Quiescent => \A c \in DOMAIN rooms : Hosts(RoomOf(c)) = {RoomOf(c).host_id}

\* Task s ends the leave of a room's host in this step.
HostLeaveEnds(s) ==
    /\ h[s].pc = "loop"
    /\ \/ h[s].msg.type = "host_changed"
       \/ /\ h[s].msg.type = "player_left"
          /\ h[s].sender = objs[h[s].room].host_id
    /\ h'[s].pc \in {"read", "done"}

\* C4: when the leave of a host ends and the room still has members, exactly
\* one of them is marked is_host, it is host_id, and host_changed has been
\* written to the socket of every member.
C4_HostMigrates ==
    [][\A s \in Sockets :
          (HostLeaveEnds(s) /\ h[s].room \in DOMAIN objs'
             /\ ~is_empty(objs'[h[s].room])) =>
          LET room == objs'[h[s].room]
          IN /\ Hosts(room) = {room.host_id}
             /\ room.host_id \in Keys(room.players)
             /\ h[s].msg = HostChanged(room.host_id)
             /\ \A p \in Keys(room.players) :
                   DictGet(room.players, p) \in open =>
                   DictGet(room.players, p) \in h[s].served]_vars

\* The request f meets one of the rejections of handle_create_room and
\* handle_join_room in the current state.
Rejected(f) ==
    LET code == upper(f.room_code)
    IN \/ /\ f.type = "create_room"
          /\ (Len(code) # RoomCodeLen \/ code \in DOMAIN rooms)
       \/ /\ f.type = "join_room"
          /\ \/ code \notin DOMAIN rooms
             \/ DictLen(RoomOf(code).players) >= RoomCapacity
             \/ RoomOf(code).game_started

\* C5: a rejected create_room or join_room writes one room_error to the
\* requesting socket and nothing to any other socket, and leaves rooms,
\* player_rooms and every Room as they were.
C5_RejectedIsInert ==
    [][\A s \in {1, 2} : \A f \in JoinFrames(s) :
          (Rejected(f) /\ Receive(s, f, MaxFramesJoin)) =>
          /\ Len(outbox'[s]) = 1
          /\ outbox'[s][1].type = "room_error"
          /\ \A t \in Sockets \ {s} : outbox'[t] = <<>>
          /\ rooms' = rooms
          /\ player_rooms' = player_rooms
          /\ objs' = objs]_vars

\* A create_room for the code of a live room has just been refused.
C5_Witness ==
    \E s \in Sockets :
        /\ outbox[s] =
              <<RoomError("Room already exists. Try a different code.")>>
        /\ AAAA \in DOMAIN rooms

\* C6: no room of the registry ever has more than four players, and a
\* join_room for a room that has four is answered room_error (full) and
\* changes no Room.
C6_AtMostFour ==
    /\ [](\A c \in DOMAIN rooms : DictLen(RoomOf(c).players) <= RoomCapacity)
    /\ [][\A s \in {1, 2} : \A f \in JoinFrames(s) :
             (/\ f.type = "join_room"
              /\ upper(f.room_code) \in DOMAIN rooms
              /\ DictLen(RoomOf(upper(f.room_code)).players) = RoomCapacity
              /\ Receive(s, f, MaxFramesJoin)) =>
             /\ outbox'[s] = <<RoomError("Room is full (max 4 players).")>>
             /\ objs' = objs
             /\ player_rooms' = player_rooms]_vars

\* A fifth player has just been refused by a room of four.
C6_Witness ==
    \E s \in Sockets, c \in DOMAIN rooms :
        /\ outbox[s] = <<RoomError("Room is full (max 4 players).")>>
        /\ DictLen(RoomOf(c).players) = RoomCapacity

\* Player p, the only member of room c, leaves in this step: by a
\* leave_room frame, or by the close of the socket it is registered with.
LastLeaves(p, c) ==
    /\ Keys(RoomOf(c).players) = {p}
    /\ \/ \E s \in Sockets :
             Receive(s, Frame("leave_room", p, NoCode, NoId, 0), MaxFrames)
       \/ \E s \in Sockets : DictGet(RoomOf(c).players, p) = s /\ Closed(s)

\* C7: when the last player of a room leaves, the room is removed from the
\* registry.
C7_LastLeaveRemoves ==
    [][\A c \in DOMAIN rooms : \A p \in Pids :
          LastLeaves(p, c) => c \notin DOMAIN rooms']_vars

\* Task s ends the forwarding of a game frame in this step.
ForwardEnds(s) ==
    /\ h[s].pc = "loop"
    /\ h[s].msg.type \in GameKinds
    /\ h'[s].pc \in {"read", "done"}

\* C8: when the forwarding of a game frame ends, the frame as received has
\* been written to the socket of every other member it was owed to (still a
\* member, its socket open), and not to the socket of its sender.
C8_Forwarded ==
    [][\A s \in Sockets :
          (ForwardEnds(s) /\ h[s].room \in DOMAIN objs') =>
          LET room == objs'[h[s].room]
          IN /\ \A p \in h[s].audience \cap Keys(room.players) :
                   DictGet(room.players, p) \in open =>
                   DictGet(room.players, p) \in h[s].served
             /\ h[s].sender \in Keys(room.players) =>
                   DictGet(room.players, h[s].sender) \notin h[s].served]_vars

IsGameFrame(m) == m.type \in GameKinds

\* C9: game frames of one sender are written to each other member in the
\* order in which the sender sent them.
C9_SenderOrder ==
    \A t \in Sockets : \A i, j \in DOMAIN outbox[t] :
        (/\ i < j
         /\ IsGameFrame(outbox[t][i]) /\ IsGameFrame(outbox[t][j])
         /\ outbox[t][i].sender_id = outbox[t][j].sender_id) =>
        outbox[t][i].payload < outbox[t][j].payload

\* A member has been written two game frames of the same sender.
C9_Witness ==
    \E t \in Sockets : \E i, j \in DOMAIN outbox[t] :
        /\ i < j
        /\ IsGameFrame(outbox[t][i]) /\ IsGameFrame(outbox[t][j])
        /\ outbox[t][i].sender_id = outbox[t][j].sender_id

\* The room was stale when the pass started.
WasStale(c) == now - RoomOf(c).last_activity > StaleAfter

\* C10: a stale-room pass removes every room that was stale from the
\* registry and every member of such a room from player_rooms.
C10_StalePurged ==
    [][cleanup_stale_rooms =>
          \A c \in DOMAIN rooms :
              WasStale(c) =>
              /\ c \notin DOMAIN rooms'
              /\ \A p \in Keys(RoomOf(c).players) :
                    p \notin DOMAIN player_rooms']_vars

\* A pass has just removed a room while another room stays.
C10_Witness ==
    /\ \E i \in DOMAIN outbox[Stdout] :
          /\ outbox[Stdout][i].type = "cleanup"
          /\ outbox[Stdout][i].room_code \notin DOMAIN rooms
    /\ rooms # EmptyMap

\* The kinds that answer a request of kind t.
Answers(t) ==
    {IF t = "create_room" THEN "room_created" ELSE "room_joined", "room_error"}

\* The frames of kind in K written to socket s by the step.
Written(s, K) == {i \in DOMAIN outbox'[s] : outbox'[s][i].type \in K}

\* C11: the step that reads a create_room or join_room frame with a
\* sender_id writes exactly one frame of the matching confirmation kind or
\* room_error to the requesting socket, and no later step of any handler
\* writes a frame of these kinds.
C11_OneAnswer ==
    [][/\ \A s \in {1, 2} : \A f \in JoinFrames(s) :
            (/\ f.type \in {"create_room", "join_room"}
             /\ f.sender_id # NoId
             /\ Receive(s, f, MaxFramesJoin)) =>
            /\ Cardinality(Written(s, Answers(f.type))) = 1
            /\ Written(s, {"room_created", "room_joined", "room_error"}
                             \ Answers(f.type)) = {}
       /\ \A s \in {1, 2} :
            (Resume(s) \/ Closed(s)) =>
            \A t \in Sockets :
                Written(t, {"room_created", "room_joined", "room_error"}) = {}
      ]_vars

\* A join has just been confirmed and its handler is about to broadcast.
C11_Witness ==
    \E s \in Sockets :
        /\ h[s].pc = "start"
        /\ Len(outbox[s]) = 1
        /\ outbox[s][1].type = "room_joined"

\* The step creates the room of f with the sender as its only member.
CreateSucceeds(s, f) ==
    LET code == upper(f.room_code)
    IN /\ code \in DOMAIN rooms'
       /\ Keys(objs'[rooms'[code]].players) = {f.sender_id}
       /\ DOMAIN objs'[rooms'[code]].player_info = {f.sender_id}
       /\ outbox'[s] = <<RoomCreated(code)>>

\* The step adds the sender of f to the room of f, whose only member is A,
\* and answers room_joined listing exactly the PlayerInfo of A.
JoinSucceeds(s, f, A) ==
    LET code == upper(f.room_code)
        room == objs'[rooms'[code]]
    IN /\ code \in DOMAIN rooms'
       /\ rooms'[code] = rooms[code]
       /\ Keys(room.players) = {A, f.sender_id}
       /\ DOMAIN room.player_info = {A, f.sender_id}
       /\ room.player_info[f.sender_id].player_id = f.sender_id
       /\ Len(outbox'[s]) = 1
       /\ outbox'[s][1].type = "room_joined"
       /\ outbox'[s][1].room_code = code
       /\ outbox'[s][1].players = {RoomOf(code).player_info[A]}

\* A join handler that resumes in a room of two writes player_joined, with
\* the PlayerInfo of the joiner, to the other member.
JoinAnnounced(s) ==
    (h[s].pc = "start" /\ h[s].msg.type = "player_joined" /\ Resume(s)) =>
    LET room == objs[h[s].room]
        B == h[s].sender
    IN \A A \in Keys(room.players) \ {B} :
          (/\ Keys(room.players) = {A, B}
           /\ DictGet(room.players, A) \in open) =>
          /\ h[s].msg = PlayerJoined(room.player_info[B])
          /\ outbox'[DictGet(room.players, A)] = <<h[s].msg>>

\* Room code `code` is held by player A alone, and f asks to join as another.
JoinsHost(f, A) ==
    /\ f.type = "join_room"
    /\ upper(f.room_code) \in DOMAIN rooms
    /\ Keys(RoomOf(upper(f.room_code)).players) = {A}
    /\ DOMAIN RoomOf(upper(f.room_code)).player_info = {A}
    /\ A # f.sender_id

CloseLeaveEnds(s) ==
    /\ h[s].via = "close"
    /\ h[s].pc = "loop"
    /\ h[s].msg.type = "player_left"
    /\ Resume(s)
    /\ ~(h'[s].pc = "loop" /\ h'[s].msg.type = "player_left")

\* C13: when the leave performed at the close of a socket has finished its
\* player_left broadcast, the frame has been written to every member that
\* was in the room when the leave began and still is (its socket open), and
\* the player is not a key of player_rooms.
C13_CloseLeaves ==
    [][\A s \in Sockets :
          (CloseLeaveEnds(s) /\ h[s].room \in DOMAIN objs') =>
          LET room == objs'[h[s].room]
          IN /\ \A p \in h[s].audience \cap Keys(room.players) :
                   DictGet(room.players, p) \in open =>
                   DictGet(room.players, p) \in h[s].served
             /\ h[s].sender \notin DOMAIN player_rooms']_vars

\* C14: in every state, every entry player_rooms[p] = c names a room of the
\* registry that has p among its players.
C14_PlayerRoomsSound ==
    \A p \in DOMAIN player_rooms :
        /\ player_rooms[p] \in DOMAIN rooms
        /\ p \in Keys(RoomOf(player_rooms[p]).players)

\* Time has passed, and a player that player_rooms places in one room is
\* still among the players of another.
C14_Witness ==
    /\ now > StaleAfter
    /\ \E p \in DOMAIN player_rooms : \E c \in DOMAIN rooms :
          /\ c # player_rooms[p]
          /\ p \in Keys(RoomOf(c).players)

\* The edges of the session state machine.
Edges ==
    {<<"disconnected", "connecting">>, <<"connecting", "connected">>,
     <<"connecting", "error">>, <<"connected", "in_room">>,
     <<"in_room", "game_active">>}
    \cup {<<x, "disconnected">> :
             x \in {"connecting", "connected", "in_room", "game_active",
                    "error"}}

\* C15: every change of the client's state follows an edge of the session
\* state machine.
C15_FollowsEdges ==
    [][nm'.state # nm.state => <<nm.state, nm'.state>> \in Edges]_vars

\* C16: every confirmation a create_room or join_room call takes from the
\* confirmation queue answers that call's own request.
C16_OwnConfirmation ==
    [][WaitTakes => Head(nm.message_queue).re = nm.call.req]_vars

\* C17: connect() invoked in state error starts connection attempts again.
C17_ErrorRecovers ==
    [][(Call_connect /\ nm.state = "error") =>
          (nm'.state = "connecting" /\ nm'.call.pc = "attempt")]_vars

\* C18: connect() called in state disconnected starts a first attempt and
\* never makes more than reconnect_attempts; a successful attempt ends the
\* call with state connected and the receive loop started; a failed one is
\* followed by another, except the last, which ends the call with failure
\* and state error; and the call always ends.
C18_ConnectAttempts ==
    /\ [](nm.call.attempt <= 3)
    /\ [][(Call_connect /\ nm.state = "disconnected") =>
             (nm'.state = "connecting" /\ nm'.call.attempt = 1)]_vars
    /\ [][(nm.call.op = "connect" /\ AttemptEnds(TRUE)) =>
             /\ nm'.call.op = "none" /\ nm'.ret = "True"
             /\ nm'.state = "connected" /\ nm'.receive_task = "running"]_vars
    /\ [][(nm.call.op = "connect" /\ AttemptEnds(FALSE)) =>
             IF nm.call.attempt < 3
             THEN /\ nm'.call.op = "connect"
                  /\ nm'.call.attempt = nm.call.attempt + 1
                  /\ nm'.state = "connecting"
             ELSE /\ nm'.call.op = "none" /\ nm'.ret = "False"
                  /\ nm'.state = "error"]_vars
    /\ [][(nm.call.op = "connect" /\ nm'.call.op = "none"
              /\ nm'.ret = "False") =>
             (nm.call.attempt = 3 /\ nm'.state = "error")]_vars
    /\ ((nm.call.op = "connect") ~> (nm.call.op = "none"))

\* connect() is in its third attempt.
C18_Witness ==
    /\ nm.call.op = "connect"
    /\ nm.call.pc = "attempt"
    /\ nm.call.attempt = 3
    /\ nm.state = "connecting"

\* C19: once generated, the player_id of the manager never changes.
C19_PlayerIdKept ==
    [][nm.player_id # NoId => nm'.player_id = nm.player_id]_vars

\* The kinds of the three room confirmations.
Confirmations == {"room_created", "room_joined", "room_error"}

\* C20: the confirmation queue only ever holds room_created, room_joined
\* and room_error; a frame of another kind that the receive loop reads is
\* handled and leaves the queue as it was, also while a call waits; and
\* what a waiting call takes is a confirmation.
C20_QueueHoldsConfirmations ==
    /\ [](\A i \in DOMAIN nm.message_queue :
             nm.message_queue[i].type \in Confirmations)
    /\ [][(Deliver /\ Head(nm.wire).type \notin Confirmations) =>
             /\ nm'.message_queue = nm.message_queue
             /\ Head(nm.wire).type = "error" => nm'.errors = 1
             /\ Head(nm.wire).type = "game_start" =>
                    nm'.state = "game_active"
             /\ Head(nm.wire).type = "player_joined" =>
                    Head(nm.wire).pid \in nm'.players]_vars
    /\ [][WaitTakes => Head(nm.message_queue).type \in Confirmations]_vars

\* An `error` frame has just been handled while a call waits for its
\* confirmation.
C20_Witness ==
    /\ nm.call.pc = "wait"
    /\ nm.transport = "open"
    /\ nm.errors = 1
    /\ nm.nin = 1
    /\ nm.wire = <<>>


(***************************************************************************)
(* C21..C30                                                                *)
(***************************************************************************)
\* The waiting create_room / join_room ends on a room_error or on the
\* timeout.
RequestFails ==
    \/ WaitTimesOut
    \/ WaitTakes /\ Head(nm.message_queue).type = "room_error"

\* C21: a create_room / join_room that runs in state connected and fails,
\* by a room_error or by the timeout, returns failure, has invoked on_error
\* exactly once, and leaves the state connected with no call in progress.
C21_FailureReportedOnce ==
    [][RequestFails /\ nm.state = "connected"
         => /\ nm'.ret = Failure(nm.call.op)
            /\ nm.call.errs + nm'.errors = 1
            /\ nm'.state = "connected"
            /\ nm'.call = NoCall]_vars

\* C22: when the transport ends while the receive loop runs, the loop
\* exits and leaves the state disconnected or error, never connected,
\* in_room or game_active.
C22_CloseLeavesDisconnected ==
    [][(\E how \in {"ok", "closed", "exception"} : TransportEnds(how))
         /\ nm.receive_task = "running"
         => /\ nm'.receive_task = "done"
            /\ nm'.state \in {"disconnected", "error"}]_vars

\* The fields of the NetworkManager and the state of its transport.
Session(m) ==
    [state |-> m.state, player_id |-> m.player_id, websocket |-> m.websocket,
     receive_task |-> m.receive_task, message_queue |-> m.message_queue,
     room_code |-> m.room_code, is_host |-> m.is_host, players |-> m.players,
     transport |-> m.transport]

\* C23: disconnect() ends in state disconnected with room_code None, an
\* empty roster and no transport, and a second disconnect() leaves the
\* session as the first one left it.
C23_DisconnectIdempotent ==
    [][Call_disconnect
         => /\ nm'.state = "disconnected"
            /\ nm'.room_code = NoCode
            /\ nm'.players = {}
            /\ nm'.websocket = "none"
            /\ nm'.transport # "open"
            /\ nm'.call = NoCall
            /\ Session(disconnect(Fresh(nm'))) = Session(nm')]_vars

\* A session that had asked for a room as host has been disconnected.
C23_Witness ==
    /\ nm.receive_task = "cancelled"
    /\ nm.state = "disconnected"
    /\ nm.websocket = "none"
    /\ nm.is_host
    /\ nm.nreq > 0
    /\ nm.ret = "None"

\* C24: send_game_state, send_game_action, send_turn_end and send_chat
\* write nothing unless the state is in_room or game_active; in those
\* states they write exactly one frame, carrying room_code and player_id;
\* and they change no field of the session.
C24_SendsOneFrame ==
    [][Call_send
         => /\ IF nm.state \in {"in_room", "game_active"}
               THEN /\ Len(nm'.sent) = 1
                    /\ nm'.sent[1].type \in SendKinds
                    /\ nm'.sent[1].room_code = nm.room_code
                    /\ nm'.sent[1].pid = nm.player_id
               ELSE nm'.sent = <<>>
            /\ Session(nm') = Session(nm)]_vars

\* C25: start_game() by a client whose is_host is not set writes nothing
\* and changes no field of the session; and start_game() moves the state to
\* game_active only for the host of a room it is in (state in_room with
\* is_host set).
C25_HostOnlyStart ==
    [][Call_start_game
         => /\ ~nm.is_host => nm'.sent = <<>> /\ Session(nm') = Session(nm)
            /\ nm'.state = "game_active" /\ nm.state # "game_active"
                  => nm.is_host /\ nm.state = "in_room"]_vars

\* C26: the step that reads a frame that is not JSON, is not a JSON
\* object, or has no sender_id writes one `error` frame to the socket it
\* came from and nothing to any other socket, leaves rooms, player_rooms
\* and every Room as they were, and ends with the handler of that socket
\* reading again.
C26_BadFrameAnswered ==
    [][\A s \in {1, 2} : \A f \in BadFrames :
          Receive(s, f, MaxFramesErrors) =>
          /\ Len(outbox'[s]) = 1
          /\ outbox'[s][1].type = "error"
          /\ \A t \in Sockets \ {s} : outbox'[t] = <<>>
          /\ rooms' = rooms
          /\ player_rooms' = player_rooms
          /\ objs' = objs
          /\ h'[s].pc = "read"
          /\ \A t \in Sockets \ {s} : h'[t] = h[t]]_vars

\* A member of a room of two has just been told that its frame has no
\* sender_id, and the other member's socket is open.
C26_Witness ==
    \E s \in {1, 2} :
        /\ outbox[s] = <<ErrorMsg("Missing sender_id")>>
        /\ h[s].pc = "read"
        /\ open = {1, 2}
        /\ AAAA \in DOMAIN rooms
        /\ Keys(RoomOf(AAAA).players) = {"p1", "p2"}

\* The room a game frame f is for: the room_code of its data, or else the
\* room player_rooms gives for its sender.
TargetOf(f) ==
    IF f.room_code # NoCode THEN f.room_code
    ELSE IF f.sender_id \in DOMAIN player_rooms
    THEN player_rooms[f.sender_id]
    ELSE NoCode

\* C27: the step that reads a game_start frame for a room of the registry
\* leaves the room's game_started true; game_started stays true and the
\* player set gains no member for as long as the room is in the registry;
\* and a join_room for such a room is answered by one room_error.
C27_StartedStaysClosed ==
    [][/\ \A s \in {1, 2} : \A f \in JoinFrames(s) :
            (/\ f.type = "game_start"
             /\ TargetOf(f) \in DOMAIN rooms
             /\ Receive(s, f, MaxFramesJoin)) =>
            /\ TargetOf(f) \in DOMAIN rooms'
            /\ objs'[rooms'[TargetOf(f)]].game_started
       /\ \A c \in DOMAIN rooms \cap DOMAIN rooms' :
            (rooms'[c] = rooms[c] /\ RoomOf(c).game_started) =>
            /\ objs'[rooms'[c]].game_started
            /\ Keys(objs'[rooms'[c]].players) \subseteq Keys(RoomOf(c).players)
       /\ \A s \in {1, 2} : \A f \in JoinFrames(s) :
            (/\ f.type = "join_room"
             /\ upper(f.room_code) \in DOMAIN rooms
             /\ RoomOf(upper(f.room_code)).game_started
             /\ Receive(s, f, MaxFramesJoin)) =>
            /\ Len(outbox'[s]) = 1
            /\ outbox'[s][1].type = "room_error"
      ]_vars

\* A join_room for a started room that is not full has just been refused.
C27_Witness ==
    \E s \in Sockets :
        /\ outbox[s] = <<RoomError("Game already in progress.")>>
        /\ AAAA \in DOMAIN rooms
        /\ RoomOf(AAAA).game_started
        /\ DictLen(RoomOf(AAAA).players) < RoomCapacity

\* What the loop of the suspended handler s meets when it goes on.
NextOf(s) == BcastRun(objs[h[s].room].players, h[s].it, h[s].exclude)

\* The send the loop of handler s goes on to fails: the socket of the next
\* recipient is closed.
WriteFails(s) ==
    /\ h[s].pc = "loop"
    /\ NextOf(s).res = "item"
    /\ objs[h[s].room].players[NextOf(s).idx].ws \notin open

\* The loop of handler s runs to its end in this step.
LoopEnds(s) ==
    /\ h[s].pc = "loop"
    /\ NextOf(s).res = "stop"
    /\ Resume(s)

MidLeave(s) ==
    /\ h[s].pc = "loop"
    /\ h[s].k = "leave_cleanup"
    /\ h[s].msg.type = "player_left"
    /\ h[s].sender = objs[h[s].room].host_id

\* C29: between the first and the last change a leave makes to rooms,
\* player_rooms and the Room, no other handler takes a step that changes
\* any of them: every such change is a step of the leave itself.
C29_NoInterleaving ==
    [][\A s \in Sockets :
          (MidLeave(s) /\ <<rooms, player_rooms, objs>>' # <<rooms, player_rooms, objs>>)
             => Resume(s)]_vars

\* The first of red, blue, green, purple that is not in used.
FirstUnused(used) ==
    CASE "red" \notin used -> "red"
      [] "blue" \notin used -> "blue"
      [] "green" \notin used -> "green"
      [] OTHER -> "purple"

\* C30: a join_room that is not rejected and asks for a colour some member
\* has is accepted with the first colour of red, blue, green, purple that no
\* member has, and one that asks for a colour no member has keeps it; the
\* colour is stored for the joiner and returned as assigned_color.
C30_ColorReassigned ==
    [][\A s \in {1, 2} : \A f \in ColorFrames(s) :
          (f.type = "join_room" /\ ~Rejected(f)
             /\ Receive(s, f, MaxFramesColors)) =>
          LET used == used_colors(RoomOf(AAAA))
              color == IF f.color_key \in used THEN FirstUnused(used)
                       ELSE f.color_key
          IN /\ color \notin used \/ f.color_key \notin used
             /\ f.sender_id \in Keys(objs'[rooms'[AAAA]].players)
             /\ objs'[rooms'[AAAA]].player_info[f.sender_id].color_key = color
             /\ Len(outbox'[s]) = 1
             /\ outbox'[s][1].type = "room_joined"
             /\ outbox'[s][1].assigned_color = color]_vars

\* A joiner that asked for a colour a member has was given green: red and
\* blue were taken.
C30_Witness ==
    \E s \in {1, 2} :
        /\ Len(outbox[s]) = 1
        /\ outbox[s][1].type = "room_joined"
        /\ outbox[s][1].assigned_color = "green"
        /\ {"red", "blue", "green"} \subseteq used_colors(RoomOf(AAAA))

(***************************************************************************)
(* C31..C40                                                                *)
(***************************************************************************)
\* The place of a player id in the lexicographic order of the ids.
Rank(p) == CHOOSE i \in DOMAIN PidNames : PidNames[i] = p

\* C31: the step that changes the host_id of a room sets it to the
\* lexicographically smallest player_id among the members of the room.
C31_SmallestIdPromoted ==
    [][\A i \in DOMAIN objs \cap DOMAIN objs' :
          (objs'[i].host_id # objs[i].host_id) =>
          /\ objs'[i].host_id \in Keys(objs'[i].players)
          /\ \A q \in Keys(objs'[i].players) :
                Rank(objs'[i].host_id) <= Rank(q)]_vars

\* The codes of the rooms of the registry that have p among their players.
RoomsOf(p) == {c \in DOMAIN rooms : p \in Keys(RoomOf(c).players)}

\* C32: in every state a player_id is a member of at most one room of the
\* registry, and player_rooms maps every member of a room to the code of
\* that room.
C32_OneRoomPerPlayer ==
    \A p \in Pids :
        /\ Cardinality(RoomsOf(p)) <= 1
        /\ \A c \in RoomsOf(p) :
              p \in DOMAIN player_rooms /\ player_rooms[p] = c

\* The sockets that are the value of players[p] for some player p of a room.
SocketsOf(room) == {DictGet(room.players, p) : p \in Keys(room.players)}

\* C33: once the connection handler of a socket has ended its close
\* processing, the socket is the value of players[p] for no player p of any
\* room of the registry.
C33_ClosedSocketGone ==
    \A s \in Sockets :
        h[s].pc = "done" => \A c \in DOMAIN rooms : s \notin SocketsOf(RoomOf(c))

\* C34: the close processing of a socket removes no player whose players[p]
\* is another socket: every such member of a room is still a member of it
\* after the step.
C34_CloseRemovesOwn ==
    [][\A s \in Sockets :
          Closed(s) =>
          \A c \in DOMAIN rooms : \A p \in Keys(RoomOf(c).players) :
              DictGet(RoomOf(c).players, p) # s =>
              /\ c \in DOMAIN rooms'
              /\ p \in Keys(objs'[rooms'[c]].players)]_vars

\* C35: the step that reads a game frame for a room of which its sender_id
\* is not a member writes the frame to no socket, changes no Room, and the
\* handler reads on.
C35_MembersOnly ==
    [][\A s \in {1, 2} : \A f \in GameFrames(s) :
          (/\ f.type \in GameKinds
           /\ TargetOf(f) \in DOMAIN rooms
           /\ f.sender_id \notin Keys(RoomOf(TargetOf(f)).players)
           /\ Receive(s, f, MaxFramesGame)) =>
          /\ \A t \in Sockets : outbox'[t] = <<>>
          /\ objs' = objs
          /\ h'[s].pc = "read"]_vars

\* C36: a Room's game_started goes from false to true only in the step
\* that reads a game_start frame whose sender_id is the Room's host_id.
C36_HostStartsGame ==
    [][\A i \in DOMAIN objs \cap DOMAIN objs' :
          (~objs[i].game_started /\ objs'[i].game_started) =>
          \E s \in {1, 2} : \E f \in GameFrames(s) :
              /\ f.type = "game_start"
              /\ f.sender_id = objs[i].host_id
              /\ Receive(s, f, MaxFramesGame)]_vars

\* C37: when the receive loop of a client that is in a room reads the
\* host_changed frame that names the client's own player_id as the new
\* host, the client has is_host set afterwards.
C37_ClientLearnsHost ==
    [][(/\ Deliver
        /\ nm.state = "in_room"
        /\ Head(nm.wire).type = "host_changed"
        /\ Head(nm.wire).pid = nm.player_id) => nm'.is_host]_vars

\* C38: in every state in which the client's state is connected, in_room
\* or game_active, its websocket is set.
C38_ConnectedHasTransport ==
    nm.state \in Connected => nm.websocket = "set"

\* C39: in every state, no two members of a room of the registry have the
\* same color_key.
C39_DistinctColors ==
    \A c \in DOMAIN rooms :
        \A p, q \in DOMAIN RoomOf(c).player_info :
            p # q => RoomOf(c).player_info[p].color_key
                         # RoomOf(c).player_info[q].color_key

\* After a leave, a room has three members again, one of them with a colour
\* that was assigned in place of the one it asked for.
C39_Witness ==
    \E c \in DOMAIN rooms :
        /\ DictLen(RoomOf(c).players) = 3
        /\ Tomb \in Range(RoomOf(c).players)
        /\ "green" \in used_colors(RoomOf(c))

\* C40: a stale-room pass leaves every room that is not stale in the
\* registry, with the same Room, and leaves the player_rooms entry of every
\* member of such a room as it was.
C40_FreshRoomsUntouched ==
    [][cleanup_stale_rooms =>
          \A c \in DOMAIN rooms :
              ~WasStale(c) =>
              /\ c \in DOMAIN rooms'
              /\ rooms'[c] = rooms[c]
              /\ objs'[rooms'[c]] = RoomOf(c)
              /\ \A p \in Keys(RoomOf(c).players) \cap DOMAIN player_rooms :
                    /\ p \in DOMAIN player_rooms'
                    /\ player_rooms'[p] = player_rooms[p]]_vars
====
